---- MODULE Spec2Model ----
(***************************************************************************)
(* Model of log_cleaner.py (AndroidLogCleaner): the line classifier, the   *)
(* JSON payload summarizer, the reduction loop of clean_logs and the       *)
(* summary header of add_summary.  Text is modelled as TLA+ strings, one   *)
(* character per position, so lengths, substrings and formats are the      *)
(* program's own.                                                          *)
(***************************************************************************)
EXTENDS Integers, Sequences, FiniteSets, TLC

VARIABLES input_text, args_summary, pc, lines, idx, cleaned_lines,
          cleaned_text, output

vars == <<input_text, args_summary, pc, lines, idx, cleaned_lines,
          cleaned_text, output>>

(***************************************************************************)
(* Python string primitives                                                *)
(***************************************************************************)

\* s[i] as a one-character string
CharAt(s, i) == SubSeq(s, i, i)

\* the smallest element of a non-empty set of integers
Min(S) == CHOOSE m \in S : \A o \in S : m <= o

UpperCase == "ABCDEFGHIJKLMNOPQRSTUVWXYZ"

LowerCase == "abcdefghijklmnopqrstuvwxyz"

Digits == {"0", "1", "2", "3", "4", "5", "6", "7", "8", "9"}

Letters == {CharAt(LowerCase, i) : i \in 1..Len(LowerCase)}

\* characters removed by str.strip()
Whitespace == {" ", "\t", "\n", "\r", "\f"}

LowerOf ==
    [c \in {CharAt(UpperCase, i) : i \in 1..Len(UpperCase)} |->
        CharAt(LowerCase, CHOOSE i \in 1..Len(UpperCase) :
                              CharAt(UpperCase, i) = c)]

lower_char(c) == IF c \in DOMAIN LowerOf THEN LowerOf[c] ELSE c

\* str.lower()
RECURSIVE lower(_)
lower(s) ==
    IF Len(s) = 0 THEN ""
    ELSE IF Len(s) = 1 THEN lower_char(s)
    ELSE LET h == Len(s) \div 2
         IN  lower(SubSeq(s, 1, h)) \o lower(SubSeq(s, h + 1, Len(s)))

\* does k occur in s at position i
StartsAt(s, k, i) ==
    /\ i >= 1
    /\ i + Len(k) - 1 <= Len(s)
    /\ SubSeq(s, i, i + Len(k) - 1) = k

\* Python's  k in s
Contains(s, k) == \E i \in 1..(Len(s) - Len(k) + 1) : StartsAt(s, k, i)

\* str.count(k): non-overlapping occurrences, scanning left to right
RECURSIVE CountFrom(_, _, _)
CountFrom(s, k, p) ==
    LET hits == {i \in p..(Len(s) - Len(k) + 1) : StartsAt(s, k, i)}
    IN  IF hits = {} THEN 0 ELSE 1 + CountFrom(s, k, Min(hits) + Len(k))

count(s, k) == CountFrom(s, k, 1)

\* the first position at or after i that holds no whitespace
RECURSIVE skip_left(_, _)
skip_left(s, i) ==
    IF i <= Len(s) /\ CharAt(s, i) \in Whitespace
    THEN skip_left(s, i + 1) ELSE i

\* the last position at or before j that holds no whitespace
RECURSIVE skip_right(_, _)
skip_right(s, j) ==
    IF j >= 1 /\ CharAt(s, j) \in Whitespace
    THEN skip_right(s, j - 1) ELSE j

\* str.strip()
strip(s) ==
    LET first == skip_left(s, 1)
    IN  IF first > Len(s) THEN ""
        ELSE SubSeq(s, first, skip_right(s, Len(s)))

\* str.split('\n'): always at least one field
split(s) ==
    LET nl   == {i \in 1..Len(s) : CharAt(s, i) = "\n"}
        cuts == nl \cup {0, Len(s) + 1}
        start(n) == CHOOSE c \in cuts :
                        Cardinality({d \in cuts : d < c}) = n - 1
    IN  [n \in 1..(Cardinality(nl) + 1) |->
            SubSeq(s, start(n) + 1, start(n + 1) - 1)]

\* '\n'.join(seq)
RECURSIVE join(_)
join(seq) ==
    IF Len(seq) = 0 THEN ""
    ELSE IF Len(seq) = 1 THEN seq[1]
    ELSE join(SubSeq(seq, 1, Len(seq) - 1)) \o "\n" \o seq[Len(seq)]

(***************************************************************************)
(* Regular expressions.  Every pattern of the registry has the shape       *)
(* .*P1.*P2. ... .*Pn.* : a pattern is the sequence of its parts P1..Pn,   *)
(* a part is a sequence of pieces, and a piece is a literal, an            *)
(* alternation of literals (a|b), one character of a class, or class+.     *)
(***************************************************************************)

Lit(s) == [t |-> "lit", s |-> s]

Alt(S) == [t |-> "alt", alts |-> S]

One(cls) == [t |-> "one", cls |-> cls]

Plus(cls) == [t |-> "plus", cls |-> cls]

\* the pattern  .*s.*
Has(s) == << <<Lit(s)>> >>

\* the pattern  .*a.*b.*
HasThen(a, b) == << <<Lit(a)>>, <<Lit(b)>> >>

\* positions following a match of one piece that starts at position i
PieceEnds(s, piece, i) ==
    CASE piece.t = "lit" ->
           IF StartsAt(s, piece.s, i) THEN {i + Len(piece.s)} ELSE {}
      [] piece.t = "alt" ->
           {i + Len(a) : a \in {b \in piece.alts : StartsAt(s, b, i)}}
      [] piece.t = "one" ->
           IF i <= Len(s) /\ CharAt(s, i) \in piece.cls THEN {i + 1} ELSE {}
      [] piece.t = "plus" ->
           {j \in (i + 1)..(Len(s) + 1) :
               \A m \in i..(j - 1) : CharAt(s, m) \in piece.cls}

\* positions following a match of pieces k.. of a part, started at one of P
RECURSIVE PartEnds(_, _, _, _)
PartEnds(s, part, k, P) ==
    IF k > Len(part) \/ P = {} THEN P
    ELSE PartEnds(s, part, k + 1,
                  UNION {PieceEnds(s, part[k], i) : i \in P})

\* positions following a match of a part that starts anywhere at or after p
PartEndsFrom(s, part, p) ==
    LET first == {i \in p..(Len(s) + 1) : PieceEnds(s, part[1], i) # {}}
    IN  UNION {PartEnds(s, part, 1, {i}) : i \in first}

\* .*P_k.*P_k+1 ... matched against s from position p: the leftmost end of
\* each part leaves the most text for the parts after it
RECURSIVE MatchParts(_, _, _, _)
MatchParts(s, parts, k, p) ==
    IF k > Len(parts) THEN TRUE
    ELSE LET ends == PartEndsFrom(s, parts[k], p)
         IN  ends # {} /\ MatchParts(s, parts, k + 1, Min(ends))

lower_piece(piece) ==
    CASE piece.t = "lit" -> Lit(lower(piece.s))
      [] piece.t = "alt" -> Alt({lower(a) : a \in piece.alts})
      [] OTHER -> piece

\* re.IGNORECASE: the pattern with its literals in lower case
fold_case(parts) ==
    [k \in DOMAIN parts |->
        [j \in DOMAIN parts[k] |-> lower_piece(parts[k][j])]]

\* re.match(pattern, line, re.IGNORECASE) is not None, given lower(line)
re_match_ic(parts, lowered) == MatchParts(lowered, fold_case(parts), 1, 1)

(***************************************************************************)
(* Pattern registry (AndroidLogCleaner.__init__)                           *)
(***************************************************************************)

noise_patterns ==
    << << <<Lit("BufferPoolAccessor2.0")>>, <<Lit("bufferpool2")>>,
          <<Lit("total buffers")>> >>,
       HasThen("ReflectedParamUpdater",
               "extent() != 1 for single value type"),
       << <<Lit("c2::u32 "),
            Alt({"raw.sar.", "raw.rotation.", "algo.buffers."})>> >>,
       << <<Lit("c2::i32 raw.rotation."), Alt({"flip", "value"}),
            Lit(" = "), Plus(Digits)>> >>,
       Has("content-type: application/json"),
       Has("cache-control:"),
       Has("etag:"),
       Has("age:"),
       Has("vary:"),
       << <<Lit("server: "), Alt({"nginx", "cloudflare"})>> >>,
       << <<Lit("date: "), One(Letters), One(Letters), One(Letters),
            Lit(", "), One(Digits), One(Digits)>> >>,
       Has("alt-svc:"),
       Has("via:"),
       Has("x-cache:"),
       Has("\"adult\":false"),
       << <<Lit("\"gender\":"), Plus(Digits)>> >>,
       << <<Lit("\"popularity\":"), Plus(Digits), Lit("."), Plus(Digits)>> >>,
       Has("\"profile_path\""),
       Has("\"backdrop_path\""),
       Has("\"poster_path\""),
       Has("\"vote_average\""),
       Has("\"vote_count\"") >>

important_patterns ==
    << Has("MovieDetailsViewModel"),
       Has("PlaybackViewModel"),
       Has("ExoPlayer"),
       Has("MediaCodec"),
       Has("SeasonSelector"),
       << <<Lit("TVDetailsViewModel")>>, <<Alt({"Season", "Episode"})>> >>,
       Has("TMDbTVRepository"),
       HasThen("NetworkBoundResource", "API call"),
       Has("API CALL:"),
       Has("API RESULT:"),
       Has("shouldFetch"),
       Has("URL:"),
       Has("Using URL"),
       Has("Source selected"),
       Has("playback"),
       HasThen("ExoPlayerImpl", "Init"),
       Has("MediaSourceFactory"),
       HasThen("CCodec", "allocate"),
       Has("Created component"),
       Has("Error"),
       Has("WARNING"),
       Has("WARN"),
       Has("failed"),
       Has("CORRUPTED"),
       Has("BAD_INDEX"),
       HasThen("===", "==="),
       Has("UI state"),
       Has("Sources state"),
       HasThen("DEBUG [", "]:") >>

important_keywords ==
    << "ERROR", "WARNING", "EXCEPTION", "CRASH", "FAIL", "failed",
       "Season Selection", "Episode Selection", "Loading",
       "API CALL", "API RESULT", "shouldFetch", "validation",
       "SeasonSelector", "episodes.size", "episodeCount",
       "ExoPlayer", "playback", "Source selected", "MediaCodec",
       "CCodec", "allocate", "Init", "Created component",
       "UI state", "Sources state", "MovieDetails", "PlaybackViewModel" >>

(***************************************************************************)
(* Line classifier                                                         *)
(***************************************************************************)

is_noise(line) ==
    LET lowered == lower(line)
    IN  \E n \in DOMAIN noise_patterns :
            re_match_ic(noise_patterns[n], lowered)

matches_important_pattern(line) ==
    LET lowered == lower(line)
    IN  \E n \in DOMAIN important_patterns :
            re_match_ic(important_patterns[n], lowered)

\* variant: keywords compared without lower-casing the line
has_important_keyword_case_sensitive(line) ==
    \E n \in DOMAIN important_keywords :
        Contains(line, important_keywords[n])

has_important_keyword(line) ==
    LET lowered == lower(line)
    IN  \E n \in DOMAIN important_keywords :
            Contains(lowered, lower(important_keywords[n]))

\* variant: the keyword list is not consulted
is_important_patterns_only(line) == matches_important_pattern(line)

is_important(line) ==
    matches_important_pattern(line) \/ has_important_keyword(line)

(***************************************************************************)
(* Payload summarizer                                                      *)
(***************************************************************************)

JsonMinLen == 200

\* ^(\d{4}-\d{2}-\d{2} \d{2}:\d{2}:\d{2}\.\d{3})
timestamp_pattern ==
    << One(Digits), One(Digits), One(Digits), One(Digits), Lit("-"),
       One(Digits), One(Digits), Lit("-"), One(Digits), One(Digits),
       Lit(" "), One(Digits), One(Digits), Lit(":"), One(Digits),
       One(Digits), Lit(":"), One(Digits), One(Digits), Lit("."),
       One(Digits), One(Digits), One(Digits) >>

timestamp_of(line) ==
    LET ends == PartEnds(line, timestamp_pattern, 1, {1})
    IN  IF ends = {} THEN "" ELSE SubSeq(line, 1, Min(ends) - 1)

\* the condition under which a line is replaced by a synopsis
is_long_json(line) == Contains(line, "{\"") /\ Len(line) > JsonMinLen

\* variant: "cast":[ is tested before "episodes":[
simplify_json_response_cast_first(line) ==
    IF is_long_json(line)
    THEN LET timestamp == timestamp_of(line)
         IN  IF Contains(line, "\"cast\":[")
             THEN timestamp \o "  [JSON Response] Cast/crew data with "
                    \o ToString(count(line, "\"character\":"))
                    \o " cast members (truncated)"
             ELSE IF Contains(line, "\"episodes\":[")
             THEN timestamp \o "  [JSON Response] Season data with "
                    \o ToString(count(line, "\"episode_number\":"))
                    \o " episodes (truncated)"
             ELSE IF Contains(line, "\"results\":[")
             THEN timestamp \o "  [JSON Response] Search results with "
                    \o ToString(count(line, "\"id\":"))
                    \o " items (truncated)"
             ELSE timestamp \o "  [JSON Response] Large JSON payload (truncated)"
    ELSE line

\* variant: the synopsis is put in front of the payload instead of replacing it
simplify_json_response_keep_payload(line) ==
    IF is_long_json(line)
    THEN LET timestamp == timestamp_of(line)
         IN  timestamp \o "  [JSON Response] Large JSON payload (truncated) "
               \o line
    ELSE line

simplify_json_response(line) ==
    IF is_long_json(line)
    THEN LET timestamp == timestamp_of(line)
         IN  IF Contains(line, "\"episodes\":[")
             THEN timestamp \o "  [JSON Response] Season data with "
                    \o ToString(count(line, "\"episode_number\":"))
                    \o " episodes (truncated)"
             ELSE IF Contains(line, "\"cast\":[")
             THEN timestamp \o "  [JSON Response] Cast/crew data with "
                    \o ToString(count(line, "\"character\":"))
                    \o " cast members (truncated)"
             ELSE IF Contains(line, "\"results\":[")
             THEN timestamp \o "  [JSON Response] Search results with "
                    \o ToString(count(line, "\"id\":"))
                    \o " items (truncated)"
             ELSE timestamp \o "  [JSON Response] Large JSON payload (truncated)"
    ELSE line

(***************************************************************************)
(* Reduction pipeline: one iteration of the loop of clean_logs, and the    *)
(* log lines it is run on                                                  *)
(***************************************************************************)

MaxFallbackLen == 800

VerboseDumpLen == 400

PackageMarker == "com.rdwatch.androidtv"

rescue_keywords == <<"error", "warning", "fail", "exception">>

has_rescue_keyword(line) ==
    LET lowered == lower(line)
    IN  \E n \in DOMAIN rescue_keywords : Contains(lowered, rescue_keywords[n])

\* variant: the length test of the verbose dump is  >=  instead of  >
is_verbose_dump_ge(line) ==
    /\ Contains(line, "Dict {")
    /\ Contains(line, "c2::")
    /\ Len(line) >= VerboseDumpLen

is_verbose_dump(line) ==
    /\ Contains(line, "Dict {")
    /\ Contains(line, "c2::")
    /\ Len(line) > VerboseDumpLen

\* the fallback heuristic for a line that is neither noise nor important
fallback_keeps(line) ==
    IF Contains(line, PackageMarker)
    THEN IF Len(line) < MaxFallbackLen
         THEN ~is_verbose_dump(line)
         ELSE has_rescue_keyword(line)
    ELSE FALSE

\* n copies of s
RECURSIVE Rep(_, _)
Rep(s, n) ==
    IF n <= 0 THEN ""
    ELSE IF n = 1 THEN s
    ELSE Rep(s, n \div 2) \o Rep(s, n - (n \div 2))

\* s filled with x up to length n
PadTo(s, n) == s \o Rep("x", n - Len(s))

DumpPrefix == "com.rdwatch.androidtv D/Codec: Dict { c2::x = 1 } "

HomePrefix == "com.rdwatch.androidtv I/Home: "

\* log lines covering every branch of the classifier and of the summarizer
LinePool ==
    { "  \t",
      "2024-01-01 10:00:00.000 DEBUG content-type: application/json",
      "  2024-01-01 10:00:01.000 ERROR Season Selection failed \t",
      "E/Http: ERROR cache-control: no-store",
      PadTo("2024-01-01 10:00:02.000 API RESULT: {\"episodes\":["
              \o Rep("{\"episode_number\":1},", 3)
              \o "],\"cast\":[{\"character\":\"a\"}]} ", 250),
      PadTo("com.rdwatch.androidtv D/Tmdb: {\"cast\":["
              \o Rep("{\"character\":\"b\"},", 2)
              \o "],\"results\":[{\"id\":7}]} ", 201),
      PadTo("2024-01-01 10:00:03.000 shouldFetch {\"results\":["
              \o Rep("{\"id\":1},", 12) \o "]} ", 300),
      PadTo("com.rdwatch.androidtv D/Repo: {\"status\":\"ok\"} ", 210),
      PadTo("com.rdwatch.androidtv D/Repo: {\"episodes\":[]} ", 200),
      PadTo("2024-01-01 10:00:04.000 API RESULT: {\"results\":[{\"id\":1,"
              \o "\"poster_path\":null}]} ", 220),
      "com.rdwatch.androidtv I/Home: Selecting season 2",
      "I/System: boot completed",
      PadTo(DumpPrefix, 401),
      PadTo(DumpPrefix, 400),
      PadTo(HomePrefix, 800),
      PadTo(HomePrefix, 799),
      PadTo("com.rdwatch.androidtv I/Sync: fail to bind ", 800),
      PadTo("I/Home: Loading ", 900),
      "D/Net: Using URL https://api" }

\* reduced-log lines for the summary builder: errors, API calls, seasons
SummaryPool ==
    { "E/Repo: Error loading Season Selection",
      "API CALL: GET tv/1 WARN slow",
      "com.rdwatch.androidtv I/Home: Selecting season 2" }

\* the lines of the pools, trimmed
TrimmedPool == {strip(l) : l \in LinePool \cup SummaryPool}

\* the lines the classifier and the summarizer can be applied to
KnownLines ==
    TrimmedPool \cup {simplify_json_response(l) : l \in TrimmedPool}

\* what the classifier and the summarizer compute about one trimmed line
line_facts(line) ==
    [ noise      |-> is_noise(line),
      important  |-> is_important(line),
      keyword    |-> has_important_keyword(line),
      long_json  |-> is_long_json(line),
      simplified |-> simplify_json_response(line),
      rescue     |-> has_rescue_keyword(line),
      fallback   |-> fallback_keeps(line) ]

\* the classifier and the summarizer are pure: their results are tabulated
\* once for the lines of the pools
LineFacts == [l \in KnownLines |-> line_facts(l)]

facts(line) ==
    IF line \in DOMAIN LineFacts THEN LineFacts[line] ELSE line_facts(line)

\* variant: retained lines are inserted at the front of cleaned_lines
clean_line_prepend(cleaned, raw) ==
    LET line == strip(raw)
    IN  IF line = "" THEN cleaned
        ELSE IF facts(line).noise THEN cleaned
        ELSE LET simplified_line == facts(line).simplified
             IN  IF facts(line).important
                 THEN <<simplified_line>> \o cleaned
                 ELSE IF facts(line).fallback
                      THEN <<simplified_line>> \o cleaned
                      ELSE cleaned

\* variant: importance is tested before noise
clean_line_important_first(cleaned, raw) ==
    LET line == strip(raw)
    IN  IF line = "" THEN cleaned
        ELSE LET simplified_line == facts(line).simplified
             IN  IF facts(line).important
                 THEN Append(cleaned, simplified_line)
                 ELSE IF facts(line).noise THEN cleaned
                 ELSE IF facts(line).fallback
                      THEN Append(cleaned, simplified_line)
                      ELSE cleaned

\* cleaned_lines after the loop body has run on one raw line
clean_line(cleaned, raw) ==
    LET line == strip(raw)
    IN  IF line = "" THEN cleaned
        ELSE IF facts(line).noise THEN cleaned
        ELSE LET simplified_line == facts(line).simplified
             IN  IF facts(line).important
                 THEN Append(cleaned, simplified_line)
                 ELSE IF facts(line).fallback
                      THEN Append(cleaned, simplified_line)
                      ELSE cleaned

(***************************************************************************)
(* Summary builder                                                         *)
(***************************************************************************)

MaxErrorsShown == 5

season_selections_of(ls) ==
    SelectSeq(ls, LAMBDA l : Contains(l, "Season Selection")
                               \/ Contains(l, "Selecting season"))

api_calls_of(ls) == SelectSeq(ls, LAMBDA l : Contains(l, "API CALL:"))

\* variant: "WARN" is not looked for
errors_of_no_warn(ls) ==
    SelectSeq(ls, LAMBDA l : Contains(l, "Error") \/ Contains(l, "WARNING"))

errors_of(ls) ==
    SelectSeq(ls, LAMBDA l : Contains(l, "Error") \/ Contains(l, "WARNING")
                               \/ Contains(l, "WARN"))

\* variant: the notice is written from  >=  MaxErrorsShown errors on
errors_block_ge(errors) ==
    IF Len(errors) > 0
    THEN <<"=== ERRORS/WARNINGS ===">>
         \o SubSeq(errors, 1, IF Len(errors) < MaxErrorsShown
                                THEN Len(errors) ELSE MaxErrorsShown)
         \o (IF Len(errors) >= MaxErrorsShown
             THEN <<"... and " \o ToString(Len(errors) - MaxErrorsShown)
                      \o " more errors">>
             ELSE <<>>)
         \o <<"">>
    ELSE <<>>

errors_block(errors) ==
    IF Len(errors) > 0
    THEN <<"=== ERRORS/WARNINGS ===">>
         \o SubSeq(errors, 1, IF Len(errors) < MaxErrorsShown
                                THEN Len(errors) ELSE MaxErrorsShown)
         \o (IF Len(errors) > MaxErrorsShown
             THEN <<"... and " \o ToString(Len(errors) - MaxErrorsShown)
                      \o " more errors">>
             ELSE <<>>)
         \o <<"">>
    ELSE <<>>

add_summary(text) ==
    LET ls == split(text)
        summary ==
            << "=== LOG SUMMARY ===",
               "Total lines after cleanup: " \o ToString(Len(ls)),
               "Season selections: "
                   \o ToString(Len(season_selections_of(ls))),
               "API calls: " \o ToString(Len(api_calls_of(ls))),
               "Errors/Warnings: " \o ToString(Len(errors_of(ls))),
               "" >>
            \o errors_block(errors_of(ls))
            \o << "=== CLEANED LOG DATA ===", "" >>
    IN  join(summary) \o text

(***************************************************************************)
(* Inputs                                                                  *)
(***************************************************************************)

MaxLines == 2

MaxSummaryLines == 7

\* a log file: every line ends with a newline
RECURSIVE file_of(_)
file_of(seq) ==
    IF Len(seq) = 0 THEN ""
    ELSE file_of(SubSeq(seq, 1, Len(seq) - 1)) \o seq[Len(seq)] \o "\n"

Inputs ==
    {file_of(seq) : seq \in UNION {[1..n -> LinePool] : n \in 0..MaxLines}}

SummaryInputs ==
    {file_of(seq) :
        seq \in UNION {[1..n -> SummaryPool] : n \in 0..MaxSummaryLines}}

(***************************************************************************)
(* main(): clean_logs, then add_summary when --summary is given            *)
(***************************************************************************)

Start(texts, flags) ==
    /\ input_text \in texts
    /\ args_summary \in flags
    /\ pc = "clean_logs"
    /\ lines = <<>>
    /\ idx = 0
    /\ cleaned_lines = <<>>
    /\ cleaned_text = ""
    /\ output = ""

Init == Start(Inputs, BOOLEAN)

InitSummary == Start(SummaryInputs, {TRUE})

\* lines = input_text.strip().split('\n'); cleaned_lines = []
Split ==
    /\ pc = "clean_logs"
    /\ lines' = split(strip(input_text))
    /\ cleaned_lines' = <<>>
    /\ idx' = 1
    /\ pc' = "loop"
    /\ UNCHANGED <<input_text, args_summary, cleaned_text, output>>

\* one iteration of  for line in lines
LoopBody ==
    /\ pc = "loop"
    /\ idx <= Len(lines)
    /\ cleaned_lines' = clean_line(cleaned_lines, lines[idx])
    /\ idx' = idx + 1
    /\ UNCHANGED <<input_text, args_summary, pc, lines, cleaned_text, output>>

\* return '\n'.join(cleaned_lines)
Return ==
    /\ pc = "loop"
    /\ idx > Len(lines)
    /\ cleaned_text' = join(cleaned_lines)
    /\ pc' = "cleaned"
    /\ UNCHANGED <<input_text, args_summary, lines, idx, cleaned_lines, output>>

\* if args.summary: cleaned_text = cleaner.add_summary(cleaned_text); write
Summarize ==
    /\ pc = "cleaned"
    /\ output' = IF args_summary THEN add_summary(cleaned_text)
                                 ELSE cleaned_text
    /\ pc' = "done"
    /\ UNCHANGED <<input_text, args_summary, lines, idx, cleaned_lines,
                   cleaned_text>>

Next == Split \/ LoopBody \/ Return \/ Summarize

Spec == Init /\ [][Next]_vars

SpecSummary == InitSummary /\ [][Next]_vars

(***************************************************************************)
(* Properties                                                              *)
(***************************************************************************)

\* the loop is about to run its body on lines[idx]
InLoop == pc = "loop" /\ idx <= Len(lines)

\* the trimmed line the loop body is about to process
CurLine == strip(lines[idx])

\* the loop body has just processed lines[idx - 1]
Processed == pc = "loop" /\ idx > 1

PrevLine == strip(lines[idx - 1])

Last(seq) == seq[Len(seq)]

\* the trimmed, non-empty lines of a text, in order
TrimmedLines(text) ==
    LET raw == split(text)
    IN  SelectSeq([i \in DOMAIN raw |-> strip(raw[i])], LAMBDA l : l # "")

\* the lines of the text returned by clean_logs
ReturnedLines == IF cleaned_text = "" THEN <<>> ELSE split(cleaned_text)

\* out[j..] is obtained from inp[i..] by deleting lines and replacing each
\* remaining line by its simplification
RECURSIVE Embeds(_, _, _, _)
Embeds(out, j, inp, i) ==
    IF j > Len(out) THEN TRUE
    ELSE IF i > Len(inp) THEN FALSE
    ELSE IF out[j] = facts(inp[i]).simplified
         THEN Embeds(out, j + 1, inp, i + 1)
         ELSE Embeds(out, j, inp, i + 1)

\* C1: the lines returned by clean_logs are the trimmed non-empty input
\* lines with some lines deleted and every other line replaced by its
\* simplification, in input order and without duplication
C1_OutputIsRewrittenSubsequence ==
    pc \in {"cleaned", "done"} =>
        /\ ReturnedLines = cleaned_lines
        /\ Embeds(ReturnedLines, 1, TrimmedLines(input_text), 1)

\* C1 witness: a run that dropped one line and rewrote another
C1_Witness ==
    /\ pc = "cleaned"
    /\ Len(ReturnedLines) = 1
    /\ Len(TrimmedLines(input_text)) = 2
    /\ facts(TrimmedLines(input_text)[2]).long_json
    /\ ReturnedLines[1] = facts(TrimmedLines(input_text)[2]).simplified

\* C2: the loop body leaves cleaned_lines alone on every line that matches
\* a noise pattern, important or not
C2_NoiseContributesNothing ==
    [][(InLoop /\ facts(CurLine).noise) => cleaned_lines' = cleaned_lines]_vars

\* C2 witness: a noise line that is also important was processed and
\* nothing was retained
C2_Witness ==
    /\ Processed
    /\ idx = 2
    /\ facts(PrevLine).noise
    /\ facts(PrevLine).important
    /\ facts(PrevLine).keyword
    /\ cleaned_lines = <<>>

\* the loop body appends the line, as itself or as its synopsis
Retains(line) ==
    \/ cleaned_lines' = Append(cleaned_lines, line)
    \/ cleaned_lines' = Append(cleaned_lines, facts(line).simplified)

\* C3 as stated: every non-empty line with an important keyword is
\* retained, whatever its noise status
C3_KeywordAlwaysRetained ==
    [][(InLoop /\ CurLine # "" /\ facts(CurLine).keyword)
          => Retains(CurLine)]_vars

\* C3 amended: every non-empty line with an important keyword that matches
\* no noise pattern is retained, whatever its length
C3_KeywordRetainedUnlessNoise ==
    [][(InLoop /\ CurLine # "" /\ facts(CurLine).keyword
          /\ ~facts(CurLine).noise) => Retains(CurLine)]_vars

\* C3 witness: a keyword line of 800 characters or more, without the
\* package marker, was retained
C3_Witness ==
    /\ Processed
    /\ facts(PrevLine).keyword
    /\ ~facts(PrevLine).noise
    /\ Len(PrevLine) >= MaxFallbackLen
    /\ ~Contains(PrevLine, PackageMarker)
    /\ cleaned_lines # <<>>
    /\ Last(cleaned_lines) = PrevLine

TimestampShape == "dddd-dd-dd dd:dd:dd.ddd"

\* the leading YYYY-MM-DD HH:MM:SS.mmm prefix of a line, or empty
LeadingTimestamp(line) ==
    IF /\ Len(line) >= Len(TimestampShape)
       /\ \A i \in 1..Len(TimestampShape) :
             IF CharAt(TimestampShape, i) = "d"
             THEN CharAt(line, i) \in Digits
             ELSE CharAt(line, i) = CharAt(TimestampShape, i)
    THEN SubSeq(line, 1, Len(TimestampShape))
    ELSE ""

Occurrences(line, k) ==
    Cardinality({i \in 1..Len(line) : StartsAt(line, k, i)})

\* the synopsis format of the summarizer, with `gap` before "(truncated)"
SynopsisFormat(line, gap) ==
    IF ~(Contains(line, "{\"") /\ Len(line) > 200) THEN line
    ELSE LET kind ==
               CASE Contains(line, "\"episodes\":[") ->
                      "Season data with "
                        \o ToString(Occurrences(line, "\"episode_number\":"))
                        \o " episodes"
                 [] ~Contains(line, "\"episodes\":[")
                      /\ Contains(line, "\"cast\":[") ->
                      "Cast/crew data with "
                        \o ToString(Occurrences(line, "\"character\":"))
                        \o " cast members"
                 [] ~Contains(line, "\"episodes\":[")
                      /\ ~Contains(line, "\"cast\":[")
                      /\ Contains(line, "\"results\":[") ->
                      "Search results with "
                        \o ToString(Occurrences(line, "\"id\":"))
                        \o " items"
                 [] OTHER -> "Large JSON payload"
         IN  LeadingTimestamp(line) \o "  [JSON Response] " \o kind
               \o gap \o "(truncated)"

TwoSpaceSynopsis == [l \in KnownLines |-> SynopsisFormat(l, "  ")]

OneSpaceSynopsis == [l \in KnownLines |-> SynopsisFormat(l, " ")]

\* C4 as stated: the synopsis ends with two spaces and "(truncated)"
C4_SynopsisTwoSpaces ==
    InLoop => facts(CurLine).simplified = TwoSpaceSynopsis[CurLine]

\* C4 amended: the same format with one space before "(truncated)"
C4_SynopsisOneSpace ==
    InLoop => facts(CurLine).simplified = OneSpaceSynopsis[CurLine]

\* C4 witness: the season payload with a cast list was retained as a
\* season synopsis
C4_Witness ==
    /\ Processed
    /\ facts(PrevLine).long_json
    /\ Contains(PrevLine, "\"cast\":[")
    /\ cleaned_lines # <<>>
    /\ Last(cleaned_lines) =
         "2024-01-01 10:00:02.000  [JSON Response] Season data with 3 episodes (truncated)"

\* C5: summarizing a synopsis returns it unchanged, and a synopsis never
\* satisfies the trigger condition
C5_SummarizeIdempotent ==
    InLoop =>
        LET once == facts(CurLine).simplified
        IN  /\ facts(once).simplified = once
            /\ facts(CurLine).long_json => ~facts(once).long_json

\* C5 witness: a synopsis was produced and retained
C5_Witness ==
    /\ Processed
    /\ facts(PrevLine).long_json
    /\ cleaned_lines # <<>>
    /\ Last(cleaned_lines) = facts(PrevLine).simplified
    /\ Last(cleaned_lines) # PrevLine

\* the lines add_summary is given, and the lines it writes
ReducedLines == split(cleaned_text)

OutputLines == split(output)

NumberOf(ls, P(_)) == Cardinality({i \in DOMAIN ls : P(ls[i])})

IsSeasonLine(l) ==
    Contains(l, "Season Selection") \/ Contains(l, "Selecting season")

IsApiLine(l) == Contains(l, "API CALL:")

IsErrorLine(l) ==
    Contains(l, "Error") \/ Contains(l, "WARNING") \/ Contains(l, "WARN")

Summarized == pc = "done" /\ args_summary

\* C6: the header states, for each counter, the number of lines of the
\* reduced text that satisfy the counter's predicate
C6_CountersExact ==
    Summarized =>
        /\ OutputLines[3] = "Season selections: "
                              \o ToString(NumberOf(ReducedLines, IsSeasonLine))
        /\ OutputLines[4] = "API calls: "
                              \o ToString(NumberOf(ReducedLines, IsApiLine))
        /\ OutputLines[5] = "Errors/Warnings: "
                              \o ToString(NumberOf(ReducedLines, IsErrorLine))

\* C6 witness: a summary whose three counters differ from each other
C6_Witness ==
    /\ Summarized
    /\ OutputLines[3] = "Season selections: 3"
    /\ OutputLines[4] = "API calls: 2"
    /\ OutputLines[5] = "Errors/Warnings: 4"

ErrorLines == SelectSeq(ReducedLines, IsErrorLine)

\* C7: the errors block is present iff there are error lines, lists the
\* first min(N, 5) of them in order, and ends with "... and N-5 more
\* errors" iff N > 5
C7_ErrorsBlock ==
    Summarized =>
        LET N     == Len(ErrorLines)
            shown == IF N < 5 THEN N ELSE 5
        IN  IF N = 0
            THEN OutputLines[7] = "=== CLEANED LOG DATA ==="
            ELSE /\ OutputLines[7] = "=== ERRORS/WARNINGS ==="
                 /\ \A k \in 1..shown : OutputLines[7 + k] = ErrorLines[k]
                 /\ IF N > 5
                    THEN /\ OutputLines[8 + shown] =
                              "... and " \o ToString(N - 5) \o " more errors"
                         /\ OutputLines[9 + shown] = ""
                         /\ OutputLines[10 + shown] = "=== CLEANED LOG DATA ==="
                    ELSE /\ OutputLines[8 + shown] = ""
                         /\ OutputLines[9 + shown] = "=== CLEANED LOG DATA ==="

\* C7 witness: seven error lines, five listed and two announced
C7_Witness ==
    /\ Summarized
    /\ Len(ErrorLines) = 7
    /\ ErrorLines[1] # ErrorLines[2]
    /\ OutputLines[12] = ErrorLines[5]
    /\ OutputLines[13] = "... and 2 more errors"

\* C8 as stated: for an input without a non-blank line, clean_logs returns
\* nothing and the summary shows zero for every count, no errors block and
\* nothing after the data header
C8_EmptyInputAllZero ==
    (Summarized /\ strip(input_text) = "") =>
        /\ cleaned_lines = <<>>
        /\ cleaned_text = ""
        /\ OutputLines = << "=== LOG SUMMARY ===",
                            "Total lines after cleanup: 0",
                            "Season selections: 0",
                            "API calls: 0",
                            "Errors/Warnings: 0",
                            "",
                            "=== CLEANED LOG DATA ===",
                            "" >>

\* the retention rule of C9 for an ordinary line
FallbackRule(line) ==
    /\ Contains(line, "com.rdwatch.androidtv")
    /\ \/ /\ Len(line) < 800
          /\ ~(Contains(line, "Dict {") /\ Contains(line, "c2::")
                 /\ Len(line) > 400)
       \/ /\ Len(line) >= 800
          /\ \E k \in {"error", "warning", "fail", "exception"} :
                Contains(lower(line), k)

FallbackRuleOf == [l \in KnownLines |-> FallbackRule(l)]

Ordinary(line) ==
    line # "" /\ ~facts(line).noise /\ ~facts(line).important

\* C9: an ordinary line is retained, as its synopsis, iff the fallback rule
\* holds of it, and is dropped otherwise
C9_FallbackRetention ==
    [][(InLoop /\ Ordinary(CurLine)) =>
          IF FallbackRuleOf[CurLine]
          THEN cleaned_lines' =
                  Append(cleaned_lines, facts(CurLine).simplified)
          ELSE cleaned_lines' = cleaned_lines]_vars

\* C9 witness: an ordinary line with the package marker was retained as
\* its synopsis
C9_Witness ==
    /\ Processed
    /\ Ordinary(PrevLine)
    /\ Contains(PrevLine, PackageMarker)
    /\ facts(PrevLine).long_json
    /\ cleaned_lines # <<>>
    /\ Last(cleaned_lines) = facts(PrevLine).simplified

\* C10: no ordinary line of 800 characters or more holds a rescue keyword,
\* and every such line is dropped
C10_RescueBranchDead ==
    [][(InLoop /\ Ordinary(CurLine) /\ Len(CurLine) >= 800) =>
          /\ ~facts(CurLine).rescue
          /\ cleaned_lines' = cleaned_lines]_vars

\* C10 witness: an ordinary line of 800 characters with the package marker
\* was processed and dropped
C10_Witness ==
    /\ Processed
    /\ idx = 2
    /\ Ordinary(PrevLine)
    /\ Len(PrevLine) >= 800
    /\ Contains(PrevLine, PackageMarker)
    /\ cleaned_lines = <<>>

====
